---- MODULE Spec2Model ----
(***************************************************************************)
(* A model of advanced-vector/vector.h: RawMemory<T>, an owner of raw      *)
(* storage, and Vector<T>, the container built on it.                      *)
(*                                                                         *)
(* The heap is a finite set of blocks; a block is a sequence of slots and  *)
(* a slot records whether an object of type T is constructed there and     *)
(* which value its storage holds.  T is a value-carrying class whose move  *)
(* operations leave their source in a distinguished moved-from state, and  *)
(* whose special members may throw as its traits allow: nothrowMove models *)
(* std::is_nothrow_move_constructible_v<T>, copyable models                *)
(* std::is_copy_constructible_v<T>.                                        *)
(*                                                                         *)
(* Every member function is one action.  Its body is a pure operator over  *)
(* a machine state m = [h, k, thrown, ev]: the heap, the throw schedule    *)
(* (the k-th element operation that may throw does; 0: none), whether an   *)
(* exception is propagating, and the events of the call (lifetime misuse,  *)
(* accesses outside any block, failed assertions, leaks, double frees).    *)
(***************************************************************************)
EXTENDS Integers, Sequences, FiniteSets, TLC

\* ------------------------------------------------------------------ bounds
MaxCap == 8
MaxSize == 2
MaxVal == 1
MaxBlocks == 3
MaxThrow == 1
MaxOps == 4
MaxSeqVal == 2
MaxSeqOps == 6
MaxGrowThrow == 3
MaxGrowOps == 4
MaxAppends == 5
MaxAssignThrow == 3
MaxAssignOps == 6
MaxAliasOps == 4

VecIds == {"a", "b"}

\* ------------------------------------------------------------ element type
\* The value of a value-initialised T, of a moved-from T, and of storage whose
\* contents are indeterminate (never constructed, or destroyed).
DefaultVal == 0
MovedFrom == -1
Indeterminate == -2

NullPtr == 0

VARIABLES vecs, heap, last, crashed, nothrowMove, copyable, budget

vars == <<vecs, heap, last, crashed, nothrowMove, copyable, budget>>

\* ------------------------------------------------------------ machine state
Machine(h, k) == [h |-> h, k |-> k, thrown |-> FALSE, ev |-> {}]

Ev(m, e) == [m EXCEPT !.ev = @ \cup {e}]

\* One element operation that may throw: the k-th of the call does.
Tick(m, fallible) ==
    IF ~fallible \/ m.k = 0 THEN m
    ELSE IF m.k = 1 THEN [m EXCEPT !.thrown = TRUE, !.k = 0]
    ELSE [m EXCEPT !.k = @ - 1]

\* ------------------------------------------------------------------- heap
Uninit == [live |-> FALSE, val |-> Indeterminate]

FreeBlock == [alloc |-> FALSE, slots |-> << >>]

EmptyHeap == [b \in 1 .. MaxBlocks |-> FreeBlock]

InBlock(h, buf, i) ==
    /\ buf \in DOMAIN h
    /\ h[buf].alloc
    /\ i >= 0
    /\ i < Len(h[buf].slots)

LiveAt(h, buf, i) == InBlock(h, buf, i) /\ h[buf].slots[i + 1].live

ValueAt(h, buf, i) ==
    IF InBlock(h, buf, i) THEN h[buf].slots[i + 1].val ELSE Indeterminate

FreeIds(h) == {b \in DOMAIN h : ~h[b].alloc}

Min(S) == CHOOSE x \in S : \A y \in S : x <= y

\* operator new(n * sizeof(T)) for n != 0, nullptr for n = 0; std::bad_alloc
\* when the heap has no block left.
Allocate(m, n) ==
    IF n = 0 THEN [m |-> m, ptr |-> NullPtr]
    ELSE IF FreeIds(m.h) = {} THEN [m |-> [m EXCEPT !.thrown = TRUE], ptr |-> NullPtr]
    ELSE LET b == Min(FreeIds(m.h))
         IN [m |-> [m EXCEPT !.h[b] = [alloc |-> TRUE, slots |-> [i \in 1 .. n |-> Uninit]]],
             ptr |-> b]

\* operator delete(buf): nothing for nullptr; a block still holding
\* constructed objects is released with them ("leak").
Deallocate(m, buf) ==
    IF buf = NullPtr THEN m
    ELSE IF ~(buf \in DOMAIN m.h /\ m.h[buf].alloc) THEN Ev(m, "doubleFree")
    ELSE LET l == IF \E i \in 1 .. Len(m.h[buf].slots) : m.h[buf].slots[i].live
                  THEN Ev(m, "leak") ELSE m
         IN [l EXCEPT !.h[buf] = FreeBlock]

\* -------------------------------------------------- element operations on T
\* What reading the object at (buf, i) as a source does to the call's events.
ReadEv(m, buf, i) ==
    IF ~InBlock(m.h, buf, i) THEN Ev(m, "wild")
    ELSE IF ~m.h[buf].slots[i + 1].live THEN Ev(m, "deadRead")
    ELSE m

\* new (buf + i) T(v): the storage at (buf, i) now holds a constructed T.
ConstructAt(m, buf, i, v, fallible) ==
    LET t == Tick(m, fallible)
    IN IF t.thrown THEN t
       ELSE IF ~InBlock(t.h, buf, i) THEN Ev(t, "wild")
       ELSE LET e == IF t.h[buf].slots[i + 1].live THEN Ev(t, "overConstruct") ELSE t
            IN [e EXCEPT !.h[buf].slots[i + 1] = [live |-> TRUE, val |-> v]]

\* (buf + i)->~T()
Destroy(m, buf, i) ==
    IF ~InBlock(m.h, buf, i) THEN Ev(m, "wild")
    ELSE LET e == IF m.h[buf].slots[i + 1].live THEN m ELSE Ev(m, "deadDestroy")
         IN [e EXCEPT !.h[buf].slots[i + 1] = Uninit]

\* buf[i] = v: the assignment operator of the object at (buf, i); on storage
\* that holds no object the call is Undefined, and where it goes on the value
\* is written all the same.
AssignAt(m, buf, i, v, fallible) ==
    LET t == Tick(m, fallible)
    IN IF t.thrown THEN t
       ELSE IF ~InBlock(t.h, buf, i) THEN Ev(t, "wild")
       ELSE LET e == IF t.h[buf].slots[i + 1].live THEN t ELSE Ev(t, "deadAssign")
            IN [e EXCEPT !.h[buf].slots[i + 1].val = v]

\* The source of a completed move is left moved-from.
LeaveMoved(c, buf, i) ==
    IF ~c.thrown /\ InBlock(c.h, buf, i)
    THEN [c EXCEPT !.h[buf].slots[i + 1].val = MovedFrom] ELSE c

CopyConstruct(m, sb, si, db, di) ==
    ConstructAt(ReadEv(m, sb, si), db, di, ValueAt(m.h, sb, si), TRUE)

MoveConstruct(m, sb, si, db, di) ==
    LeaveMoved(ConstructAt(ReadEv(m, sb, si), db, di, ValueAt(m.h, sb, si), ~nothrowMove),
               sb, si)

CopyAssign(m, sb, si, db, di) ==
    AssignAt(ReadEv(m, sb, si), db, di, ValueAt(m.h, sb, si), TRUE)

MoveAssign(m, sb, si, db, di) ==
    LeaveMoved(AssignAt(ReadEv(m, sb, si), db, di, ValueAt(m.h, sb, si), ~nothrowMove),
               sb, si)

\* ------------------------------------------------------- <memory> algorithms
RECURSIVE DestroyN(_, _, _, _)
DestroyN(m, buf, off, n) ==
    IF n = 0 THEN m ELSE DestroyN(Destroy(m, buf, off), buf, off + 1, n - 1)

\* std::uninitialized_copy_n, element i having been tried (c): on a throw the
\* copies made so far are destroyed.
RECURSIVE UninitCopyFrom(_, _, _, _, _, _, _)
UninitCopyNext(c, sb, so, n, db, do, i) ==
    IF c.thrown THEN DestroyN(c, db, do, i)
    ELSE UninitCopyFrom(c, sb, so, n, db, do, i + 1)

UninitCopyFrom(m, sb, so, n, db, do, i) ==
    IF i = n THEN m
    ELSE UninitCopyNext(CopyConstruct(m, sb, so + i, db, do + i), sb, so, n, db, do, i)

UninitializedCopyN(m, sb, so, n, db, do) == UninitCopyFrom(m, sb, so, n, db, do, 0)

\* std::uninitialized_move_n: the same, the sources already moved stay moved-from.
RECURSIVE UninitMoveFrom(_, _, _, _, _, _, _)
UninitMoveNext(c, sb, so, n, db, do, i) ==
    IF c.thrown THEN DestroyN(c, db, do, i)
    ELSE UninitMoveFrom(c, sb, so, n, db, do, i + 1)

UninitMoveFrom(m, sb, so, n, db, do, i) ==
    IF i = n THEN m
    ELSE UninitMoveNext(MoveConstruct(m, sb, so + i, db, do + i), sb, so, n, db, do, i)

UninitializedMoveN(m, sb, so, n, db, do) == UninitMoveFrom(m, sb, so, n, db, do, 0)

\* std::uninitialized_value_construct_n
RECURSIVE UninitValueFrom(_, _, _, _, _)
UninitValueNext(c, buf, off, n, i) ==
    IF c.thrown THEN DestroyN(c, buf, off, i)
    ELSE UninitValueFrom(c, buf, off, n, i + 1)

UninitValueFrom(m, buf, off, n, i) ==
    IF i = n THEN m
    ELSE UninitValueNext(ConstructAt(m, buf, off + i, DefaultVal, TRUE), buf, off, n, i)

UninitializedValueConstructN(m, buf, off, n) == UninitValueFrom(m, buf, off, n, 0)

\* std::move(first, last, d_first) within one buffer: front to back.
RECURSIVE MoveForward(_, _, _, _, _)
MoveForward(m, buf, first, lst, d_first) ==
    IF first >= lst \/ m.thrown THEN m
    ELSE MoveForward(MoveAssign(m, buf, first, buf, d_first),
                     buf, first + 1, lst, d_first + 1)

\* std::move_backward(first, last, d_last) within one buffer: back to front.
RECURSIVE MoveBackward(_, _, _, _, _)
MoveBackward(m, buf, first, lst, d_last) ==
    IF first >= lst \/ m.thrown THEN m
    ELSE MoveBackward(MoveAssign(m, buf, lst - 1, buf, d_last - 1),
                      buf, first, lst - 1, d_last - 1)

\* --------------------------------------------------------------- RawMemory
\* assert(offset <= capacity_) of operator+ and assert(index < capacity_) of
\* operator[]: a failed assertion is an event of the call.
RawMemory_Plus(m, data, offset) ==
    IF offset <= data.capacity_ THEN m ELSE Ev(m, "assert")

RawMemory_Index(m, data, index) ==
    IF index < data.capacity_ THEN m ELSE Ev(m, "assert")

RawMemory_Default == [buffer_ |-> NullPtr, capacity_ |-> 0]

RawMemory_Sized(m, capacity) ==
    LET a == Allocate(m, capacity)
    IN [m |-> a.m,
        rm |-> IF a.m.thrown THEN RawMemory_Default
               ELSE [buffer_ |-> a.ptr, capacity_ |-> capacity]]

\* A move constructor that forgets other.buffer_ = nullptr.
RawMemory_MoveCtorKeepsBuffer(other) ==
    [self |-> [buffer_ |-> other.buffer_, capacity_ |-> other.capacity_],
     other |-> other]

\* RawMemory(RawMemory&& other): takes buffer_ and capacity_, nulls other.buffer_.
RawMemory_MoveCtor(other) ==
    [self |-> [buffer_ |-> other.buffer_, capacity_ |-> other.capacity_],
     other |-> [other EXCEPT !.buffer_ = NullPtr]]

RawMemory_Swap(self, other) == [self |-> other, other |-> self]

\* operator=(RawMemory&& rhs) is Swap(rhs).
RawMemory_MoveAssign(self, rhs) == RawMemory_Swap(self, rhs)

RawMemory_Dtor(m, self) == Deallocate(m, self.buffer_)

\* ------------------------------------------------------------------ Vector
NoVec == [alive |-> FALSE, data_ |-> RawMemory_Default, size_ |-> 0]

Vector_Default == [alive |-> TRUE, data_ |-> RawMemory_Default, size_ |-> 0]

\* A growth path that always relocates by move.
UseMoveAlways == TRUE

\* The if constexpr of every growth path: move when T's move constructor
\* cannot throw or T cannot be copied, copy otherwise.
UseMove == nothrowMove \/ ~copyable

Relocate(m, sb, so, n, db, do) ==
    IF m.thrown THEN m
    ELSE IF UseMove THEN UninitializedMoveN(Ev(m, "relocateByMove"), sb, so, n, db, do)
    ELSE UninitializedCopyN(Ev(m, "relocateByCopy"), sb, so, n, db, do)

\* A growth by one slot instead of doubling.
GrowByOne(size) == size + 1

\* size_t new_size = (size_ == 0) ? 1 : 2 * size_;
GrowCapacity(size) == IF size = 0 THEN 1 ELSE 2 * size

\* ~Vector(), then the destructor of the member data_.
Vector_Dtor(m, self) ==
    RawMemory_Dtor(IF self.data_.buffer_ # NullPtr
                   THEN DestroyN(m, self.data_.buffer_, 0, self.size_) ELSE m,
                   self.data_)

\* The end of a constructor whose body filled data_ (c: the machine after it):
\* on a throw the member data_ is destroyed and no Vector exists.
Vector_Constructed(data, c, size) ==
    IF c.thrown THEN [self |-> NoVec, m |-> RawMemory_Dtor(c, data)]
    ELSE [self |-> [alive |-> TRUE, data_ |-> data, size_ |-> size], m |-> c]

Sized_Construct(nd, size) ==
    Vector_Constructed(nd.rm,
        IF nd.m.thrown THEN nd.m
        ELSE UninitializedValueConstructN(nd.m, nd.rm.buffer_, 0, size),
        size)

\* explicit Vector(size_t size)
Vector_Sized(m, size) == Sized_Construct(RawMemory_Sized(m, size), size)

Copy_Construct(nd, other) ==
    Vector_Constructed(nd.rm,
        IF nd.m.thrown THEN nd.m
        ELSE UninitializedCopyN(nd.m, other.data_.buffer_, 0, other.size_, nd.rm.buffer_, 0),
        other.size_)

\* A copy constructor that takes other's buffer instead of copying into its own.
Vector_CopyShallow(m, other) ==
    [self |-> [alive |-> TRUE, data_ |-> other.data_, size_ |-> other.size_], m |-> m]

\* explicit Vector(const Vector& other)
Vector_Copy(m, other) == Copy_Construct(RawMemory_Sized(m, other.size_), other)

\* explicit Vector(Vector&& other) noexcept
Vector_Move(other) ==
    [self |-> [alive |-> TRUE, data_ |-> RawMemory_MoveCtor(other.data_).self,
               size_ |-> other.size_],
     other |-> [other EXCEPT !.data_ = RawMemory_MoveCtor(other.data_).other]]

\* void Swap(Vector& other) noexcept
Vector_Swap(self, other) ==
    [self |-> [self EXCEPT !.data_ = RawMemory_Swap(self.data_, other.data_).self,
                           !.size_ = other.size_],
     other |-> [other EXCEPT !.data_ = RawMemory_Swap(self.data_, other.data_).other,
                             !.size_ = self.size_]]

\* data_[i] = rhs[i] for i in [i, n)
RECURSIVE AssignPrefix(_, _, _, _, _)
AssignPrefix(m, self, rhs, i, n) ==
    IF i >= n \/ m.thrown THEN m
    ELSE AssignPrefix(CopyAssign(RawMemory_Index(RawMemory_Index(m, self.data_, i),
                                                 rhs.data_, i),
                                 rhs.data_.buffer_, i, self.data_.buffer_, i),
                      self, rhs, i + 1, n)

\* operator=(const Vector&), rhs.size_ > capacity: Vector rhs_copy(rhs) (cc),
\* Swap(rhs_copy), and rhs_copy is destroyed with the old contents.
CopyAssign_Swap(cc, self) ==
    IF cc.m.thrown THEN [self |-> self, m |-> cc.m]
    ELSE [self |-> Vector_Swap(self, cc.self).self,
          m |-> Vector_Dtor(cc.m, Vector_Swap(self, cc.self).other)]

\* An in-place copy assignment that leaves the surplus of this constructed.
CopyAssign_TailKeepsSurplus(a, self, rhs) ==
    IF a.thrown \/ rhs.size_ <= self.size_ THEN a
    ELSE UninitializedCopyN(RawMemory_Plus(a, self.data_, self.size_),
                            rhs.data_.buffer_, self.size_, rhs.size_ - self.size_,
                            self.data_.buffer_, self.size_)

\* operator=(const Vector&), in place, the common prefix assigned (a): the
\* surplus of this is destroyed, or the rest of rhs copy-constructed; size_ is
\* set last.
CopyAssign_Tail(a, self, rhs) ==
    IF a.thrown THEN a
    ELSE IF rhs.size_ < self.size_
    THEN DestroyN(RawMemory_Plus(a, self.data_, rhs.size_),
                  self.data_.buffer_, rhs.size_, self.size_ - rhs.size_)
    ELSE IF self.size_ < rhs.size_
    THEN UninitializedCopyN(RawMemory_Plus(a, self.data_, self.size_),
                            rhs.data_.buffer_, self.size_, rhs.size_ - self.size_,
                            self.data_.buffer_, self.size_)
    ELSE a

\* A copy assignment that sets size_ even when it threw.
CopyAssign_SizeAlways(c, self, rhs) ==
    [self |-> [self EXCEPT !.size_ = rhs.size_], m |-> c]

CopyAssign_Size(c, self, rhs) ==
    IF c.thrown THEN [self |-> self, m |-> c]
    ELSE [self |-> [self EXCEPT !.size_ = rhs.size_], m |-> c]

\* Vector& operator=(const Vector& rhs), this != &rhs
Vector_CopyAssign(m, self, rhs) ==
    IF rhs.size_ > self.data_.capacity_
    THEN CopyAssign_Swap(Vector_Copy(m, rhs), self)
    ELSE CopyAssign_Size(
             CopyAssign_Tail(
                 AssignPrefix(m, self, rhs, 0,
                              IF rhs.size_ < self.size_ THEN rhs.size_ ELSE self.size_),
                 self, rhs),
             self, rhs)

\* Vector& operator=(Vector&& rhs) noexcept
Vector_MoveAssign(self, rhs) ==
    [self |-> [self EXCEPT !.data_ = RawMemory_MoveAssign(self.data_, rhs.data_).self,
                           !.size_ = rhs.size_],
     rhs |-> [rhs EXCEPT !.data_ = RawMemory_MoveAssign(self.data_, rhs.data_).other]]

\* The end of every growth path (r: the machine after relocation): on a throw
\* new_data is destroyed and this is as it was; else the old elements are
\* destroyed, data_ and new_data swapped, and new_data destroyed with the old
\* block; size_ becomes new_size.
Grow_Finish(self, new_data, r, new_size) ==
    IF r.thrown THEN [self |-> self, m |-> RawMemory_Dtor(r, new_data)]
    ELSE [self |-> [self EXCEPT !.data_ = RawMemory_Swap(self.data_, new_data).self,
                                !.size_ = new_size],
          m |-> RawMemory_Dtor(DestroyN(r, self.data_.buffer_, 0, self.size_),
                               RawMemory_Swap(self.data_, new_data).other)]

Reserve_Relocate(nd, self) ==
    Grow_Finish(self, nd.rm,
                Relocate(nd.m, self.data_.buffer_, 0, self.size_, nd.rm.buffer_, 0),
                self.size_)

\* A Reserve that returns early only for new_capacity < Capacity().
Vector_ReserveStrict(m, self, new_capacity) ==
    IF new_capacity < self.data_.capacity_ THEN [self |-> self, m |-> m]
    ELSE Reserve_Relocate(RawMemory_Sized(m, new_capacity), self)

\* void Reserve(size_t new_capacity)
Vector_Reserve(m, self, new_capacity) ==
    IF new_capacity <= self.data_.capacity_ THEN [self |-> self, m |-> m]
    ELSE Reserve_Relocate(RawMemory_Sized(m, new_capacity), self)

\* Resize's growing branch once the capacity suffices (rs: the Vector and the
\* machine after Reserve, or as they were): value-construct [size_, new_size).
Resize_Size(self, c, new_size) ==
    IF c.thrown THEN [self |-> self, m |-> c]
    ELSE [self |-> [self EXCEPT !.size_ = new_size], m |-> c]

\* A Resize that value-constructs from index 0 instead of from size_.
Resize_ConstructFromZero(rs, new_size) ==
    Resize_Size(rs.self,
                IF rs.m.thrown THEN rs.m
                ELSE UninitializedValueConstructN(
                         RawMemory_Plus(rs.m, rs.self.data_, rs.self.size_),
                         rs.self.data_.buffer_, 0, new_size),
                new_size)

Resize_Construct(rs, new_size) ==
    Resize_Size(rs.self,
                IF rs.m.thrown THEN rs.m
                ELSE UninitializedValueConstructN(
                         RawMemory_Plus(rs.m, rs.self.data_, rs.self.size_),
                         rs.self.data_.buffer_, rs.self.size_, new_size - rs.self.size_),
                new_size)

\* void Resize(size_t new_size)
Vector_Resize(m, self, new_size) ==
    IF new_size <= self.size_
    THEN [self |-> [self EXCEPT !.size_ = new_size],
          m |-> DestroyN(RawMemory_Plus(m, self.data_, new_size),
                         self.data_.buffer_, new_size + 1, self.size_ - new_size)]
    ELSE IF new_size <= self.data_.capacity_
    THEN Resize_Construct([self |-> self, m |-> m], new_size)
    ELSE Resize_Construct(Vector_Reserve(m, self, new_size), new_size)

\* The argument a new element is constructed from: how (copy: const T&,
\* move: T&&, args: constructor arguments), and either a value of the caller's
\* or, with ref >= 0, a reference to the element at index ref of this Vector.
Arg(how, ref, val) == [how |-> how, ref |-> ref, val |-> val]

ArgValue(m, self, x) ==
    IF x.ref >= 0 THEN ValueAt(m.h, self.data_.buffer_, x.ref) ELSE x.val

ArgFallible(x) == x.how = "move" => ~nothrowMove

ArgRead(m, self, x) ==
    IF x.ref >= 0 THEN ReadEv(m, self.data_.buffer_, x.ref) ELSE m

\* An element of this Vector passed as T&& is left moved-from.
ArgMoved(c, self, x) ==
    IF x.how = "move" /\ x.ref >= 0 THEN LeaveMoved(c, self.data_.buffer_, x.ref) ELSE c

\* new (db + di) T{ std::forward<Args>(args)... }
ConstructFromArg(m, self, x, db, di) ==
    IF m.thrown THEN m
    ELSE ArgMoved(ConstructAt(ArgRead(m, self, x), db, di, ArgValue(m, self, x),
                              ArgFallible(x)),
                  self, x)

\* A call that constructs in place (c: the machine after it): size_ grows by
\* one unless it threw.
InPlace_Finish(self, c) ==
    IF c.thrown THEN [self |-> self, m |-> c]
    ELSE [self |-> [self EXCEPT !.size_ = @ + 1], m |-> c]

\* At capacity: the new element is constructed at new_data + size_, then the
\* old elements are relocated.
Append_Relocate(self, new_data, c) ==
    Grow_Finish(self, new_data,
                Relocate(c, self.data_.buffer_, 0, self.size_, new_data.buffer_, 0),
                self.size_ + 1)

Append_Construct(nd, self, x) ==
    Append_Relocate(self, nd.rm,
                    ConstructFromArg(RawMemory_Plus(nd.m, nd.rm, self.size_), self, x,
                                     nd.rm.buffer_, self.size_))

\* The body PushBack(const T&), PushBack(T&&) and EmplaceBack share.
Vector_Append(m, self, x) ==
    IF self.size_ = self.data_.capacity_
    THEN Append_Construct(RawMemory_Sized(m, GrowCapacity(self.size_)), self, x)
    ELSE InPlace_Finish(self,
             ConstructFromArg(RawMemory_Plus(m, self.data_, self.size_), self, x,
                              self.data_.buffer_, self.size_))

\* void PushBack(const T& value)
Vector_PushBackCopy(m, self, x) == Vector_Append(m, self, x)

\* void PushBack(T&& value)
Vector_PushBackMove(m, self, x) == Vector_Append(m, self, x)

\* T& EmplaceBack(Args&&... args)
Vector_EmplaceBack(m, self, x) == Vector_Append(m, self, x)

\* Emplace at capacity: the new element first, then the prefix and the suffix
\* around it, then the old elements are destroyed and the storage swapped.
Realloc_Suffix(self, new_data, r1, pos) ==
    Grow_Finish(self, new_data,
                Relocate(RawMemory_Plus(RawMemory_Plus(r1, self.data_, pos), new_data, pos),
                         self.data_.buffer_, pos, self.size_ - pos,
                         new_data.buffer_, pos + 1),
                self.size_ + 1)

Realloc_Prefix(self, new_data, c, pos) ==
    Realloc_Suffix(self, new_data,
                   Relocate(c, self.data_.buffer_, 0, pos, new_data.buffer_, 0), pos)

Emplace_Realloc(nd, self, pos, x) ==
    Realloc_Prefix(self, nd.rm,
                   ConstructFromArg(RawMemory_Plus(nd.m, nd.rm, pos), self, x,
                                    nd.rm.buffer_, pos),
                   pos)

\* Emplace below capacity, before the end: the last element is move-constructed
\* into the slot at end() (c1), the new value is built in a temporary (t, temp),
\* the range [pos, end() - 1) is moved one slot to the right, the temporary is
\* move-assigned into the slot at pos.
Shift_Assign(self, t, temp, pos) ==
    InPlace_Finish(self,
        IF t.thrown THEN t
        ELSE AssignAt(RawMemory_Index(
                          MoveBackward(t, self.data_.buffer_, pos, self.size_ - 1, self.size_),
                          self.data_, pos),
                      self.data_.buffer_, pos, temp, ~nothrowMove))

Shift_Temp(self, c1, pos, x) ==
    IF c1.thrown THEN [self |-> self, m |-> c1]
    ELSE Shift_Assign(self, ArgMoved(Tick(ArgRead(c1, self, x), ArgFallible(x)), self, x),
                      ArgValue(c1, self, x), pos)

Emplace_Shift(m, self, pos, x) ==
    Shift_Temp(self,
               MoveConstruct(RawMemory_Plus(m, self.data_, self.size_),
                             self.data_.buffer_, self.size_ - 1,
                             self.data_.buffer_, self.size_),
               pos, x)

\* iterator Emplace(const_iterator pos, Args&&... args)
Vector_Emplace(m, self, pos, x) ==
    IF self.size_ = self.data_.capacity_
    THEN Emplace_Realloc(RawMemory_Sized(RawMemory_Plus(m, self.data_, pos),
                                         GrowCapacity(self.size_)),
                         self, pos, x)
    ELSE IF pos = self.size_
    THEN InPlace_Finish(self,
             ConstructFromArg(RawMemory_Plus(m, self.data_, pos), self, x,
                              self.data_.buffer_, pos))
    ELSE Emplace_Shift(RawMemory_Plus(m, self.data_, pos), self, pos, x)

\* iterator Insert(const_iterator pos, const T& value)
Vector_InsertCopy(m, self, pos, x) == Vector_Emplace(m, self, pos, x)

\* iterator Insert(const_iterator pos, T&& value)
Vector_InsertMove(m, self, pos, x) == Vector_Emplace(m, self, pos, x)

Erase_Size(self, mv) ==
    IF mv.thrown THEN [self |-> self, m |-> mv]
    ELSE [self |-> [self EXCEPT !.size_ = @ - 1], m |-> mv]

\* iterator Erase(const_iterator pos)
Vector_Erase(m, self, pos) ==
    Erase_Size(self,
        MoveForward(RawMemory_Plus(Destroy(RawMemory_Plus(m, self.data_, pos),
                                           self.data_.buffer_, pos),
                                   self.data_, self.size_),
                    self.data_.buffer_, pos + 1, self.size_, pos))

\* void PopBack() noexcept
Vector_PopBack(m, self) ==
    [self |-> [self EXCEPT !.size_ = @ - 1],
     m |-> Destroy(RawMemory_Plus(m, self.data_, self.size_),
                   self.data_.buffer_, self.size_ - 1)]

\* ----------------------------------------------------------------- actions
Sizes == 0 .. MaxSize
Values == 1 .. MaxVal
AllThrows == 0 .. MaxThrow

Last(op, id, other, n, v, m) ==
    [op |-> op, id |-> id, other |-> other, n |-> n, v |-> v,
     thrown |-> m.thrown, ev |-> m.ev]

\* The events of a call whose behaviour the language leaves undefined (an
\* access outside any block, an operation on storage that holds no object, a
\* block released twice) or that abort it (a failed assert).
Undefined == {"wild", "assert", "deadRead", "deadDestroy", "deadAssign", "doubleFree"}

\* The call returns (or throws) and leaves the state it built; a call with an
\* Undefined event may instead end the program where it stood.  budget counts
\* the calls still to be made (-1: any number).
Commit(l, newvecs, m) ==
    /\ ~crashed
    /\ budget # 0
    /\ budget' = IF budget > 0 THEN budget - 1 ELSE budget
    /\ last' = l
    /\ \/ /\ vecs' = newvecs
          /\ heap' = m.h
          /\ crashed' = FALSE
       \/ /\ m.ev \cap Undefined # {}
          /\ crashed' = TRUE
          /\ UNCHANGED <<vecs, heap>>
    /\ UNCHANGED <<nothrowMove, copyable>>

Alive(v) == vecs[v].alive

M(k) == Machine(heap, k)

\* The capacity a growing call allocates stays within the model's bound.
GrowthFits(self) ==
    self.size_ = self.data_.capacity_ => GrowCapacity(self.size_) <= MaxCap

DefaultCtor(v) ==
    /\ ~Alive(v)
    /\ Commit(Last("Vector()", v, "-", 0, 0, M(0)),
              [vecs EXCEPT ![v] = Vector_Default], M(0))

SizedCtor(v, T) ==
    /\ ~Alive(v)
    /\ \E n \in Sizes, k \in T :
          LET r == Vector_Sized(M(k), n)
          IN Commit(Last("Vector(size)", v, "-", n, 0, r.m),
                    [vecs EXCEPT ![v] = r.self], r.m)

CopyCtor(v, T) ==
    /\ ~Alive(v)
    /\ copyable
    /\ \E w \in VecIds \ {v}, k \in T :
          /\ Alive(w)
          /\ LET r == Vector_Copy(M(k), vecs[w])
             IN Commit(Last("Vector(const&)", v, w, 0, 0, r.m),
                       [vecs EXCEPT ![v] = r.self], r.m)

MoveCtor(v) ==
    /\ ~Alive(v)
    /\ \E w \in VecIds \ {v} :
          /\ Alive(w)
          /\ LET r == Vector_Move(vecs[w])
             IN Commit(Last("Vector(&&)", v, w, 0, 0, M(0)),
                       [vecs EXCEPT ![v] = r.self, ![w] = r.other], M(0))

Dtor(v) ==
    /\ Alive(v)
    /\ LET m == Vector_Dtor(M(0), vecs[v])
       IN Commit(Last("~Vector", v, "-", 0, 0, m), [vecs EXCEPT ![v] = NoVec], m)

CopyAssignOp(v, T) ==
    /\ Alive(v)
    /\ copyable
    /\ \E w \in VecIds, k \in T :
          /\ Alive(w)
          /\ LET r == IF w = v THEN [self |-> vecs[v], m |-> M(k)]
                      ELSE Vector_CopyAssign(M(k), vecs[v], vecs[w])
             IN Commit(Last("operator=(const&)", v, w, 0, 0, r.m),
                       [vecs EXCEPT ![v] = r.self], r.m)

MoveAssignOp(v) ==
    /\ Alive(v)
    /\ \E w \in VecIds :
          /\ Alive(w)
          /\ LET r == Vector_MoveAssign(vecs[v], vecs[w])
             IN Commit(Last("operator=(&&)", v, w, 0, 0, M(0)),
                       IF w = v THEN vecs
                       ELSE [vecs EXCEPT ![v] = r.self, ![w] = r.rhs], M(0))

SwapOp(v) ==
    /\ Alive(v)
    /\ \E w \in VecIds :
          /\ Alive(w)
          /\ LET r == Vector_Swap(vecs[v], vecs[w])
             IN Commit(Last("Swap", v, w, 0, 0, M(0)),
                       IF w = v THEN vecs
                       ELSE [vecs EXCEPT ![v] = r.self, ![w] = r.other], M(0))

Reserve(v, T) ==
    /\ Alive(v)
    /\ \E n \in Sizes, k \in T :
          LET r == Vector_Reserve(M(k), vecs[v], n)
          IN Commit(Last("Reserve", v, "-", n, 0, r.m), [vecs EXCEPT ![v] = r.self], r.m)

Resize(v, T) ==
    /\ Alive(v)
    /\ \E n \in Sizes, k \in T :
          LET r == Vector_Resize(M(k), vecs[v], n)
          IN Commit(Last("Resize", v, "-", n, 0, r.m), [vecs EXCEPT ![v] = r.self], r.m)

PushBackCopy(v, X, T) ==
    /\ Alive(v)
    /\ copyable
    /\ GrowthFits(vecs[v])
    /\ \E x \in X, k \in T :
          LET r == Vector_PushBackCopy(M(k), vecs[v], Arg("copy", -1, x))
          IN Commit(Last("PushBack(const&)", v, "-", vecs[v].size_, x, r.m),
                    [vecs EXCEPT ![v] = r.self], r.m)

PushBackMove(v, X, T) ==
    /\ Alive(v)
    /\ GrowthFits(vecs[v])
    /\ \E x \in X, k \in T :
          LET r == Vector_PushBackMove(M(k), vecs[v], Arg("move", -1, x))
          IN Commit(Last("PushBack(&&)", v, "-", vecs[v].size_, x, r.m),
                    [vecs EXCEPT ![v] = r.self], r.m)

EmplaceBack(v, X, T) ==
    /\ Alive(v)
    /\ GrowthFits(vecs[v])
    /\ \E x \in X, k \in T :
          LET r == Vector_EmplaceBack(M(k), vecs[v], Arg("args", -1, x))
          IN Commit(Last("EmplaceBack", v, "-", vecs[v].size_, x, r.m),
                    [vecs EXCEPT ![v] = r.self], r.m)

Emplace(v, X, T) ==
    /\ Alive(v)
    /\ GrowthFits(vecs[v])
    /\ \E pos \in 0 .. vecs[v].size_, x \in X, k \in T :
          LET r == Vector_Emplace(M(k), vecs[v], pos, Arg("args", -1, x))
          IN Commit(Last("Emplace", v, "-", pos, x, r.m),
                    [vecs EXCEPT ![v] = r.self], r.m)

InsertCopy(v, X, T) ==
    /\ Alive(v)
    /\ copyable
    /\ GrowthFits(vecs[v])
    /\ \E pos \in 0 .. vecs[v].size_, x \in X, k \in T :
          LET r == Vector_InsertCopy(M(k), vecs[v], pos, Arg("copy", -1, x))
          IN Commit(Last("Insert(const&)", v, "-", pos, x, r.m),
                    [vecs EXCEPT ![v] = r.self], r.m)

InsertMove(v, X, T) ==
    /\ Alive(v)
    /\ GrowthFits(vecs[v])
    /\ \E pos \in 0 .. vecs[v].size_, x \in X, k \in T :
          LET r == Vector_InsertMove(M(k), vecs[v], pos, Arg("move", -1, x))
          IN Commit(Last("Insert(&&)", v, "-", pos, x, r.m),
                    [vecs EXCEPT ![v] = r.self], r.m)

Erase(v, T) ==
    /\ Alive(v)
    /\ \E pos \in 0 .. vecs[v].size_ - 1, k \in T :
          LET r == Vector_Erase(M(k), vecs[v], pos)
          IN Commit(Last("Erase", v, "-", pos, 0, r.m), [vecs EXCEPT ![v] = r.self], r.m)

PopBack(v) ==
    /\ Alive(v)
    /\ vecs[v].size_ > 0
    /\ LET r == Vector_PopBack(M(0), vecs[v])
       IN Commit(Last("PopBack", v, "-", 0, 0, r.m), [vecs EXCEPT ![v] = r.self], r.m)

\* v.PushBack(v[ref]): the argument is a reference to an element of v itself.
PushBackSelf(v, T) ==
    /\ Alive(v)
    /\ copyable
    /\ GrowthFits(vecs[v])
    /\ \E ref \in 0 .. vecs[v].size_ - 1, k \in T :
          LET r == Vector_PushBackCopy(M(k), vecs[v], Arg("copy", ref, 0))
          IN Commit(Last("PushBack(const& self)", v, "-", vecs[v].size_, ref, r.m),
                    [vecs EXCEPT ![v] = r.self], r.m)

\* v.Insert(v.begin() + pos, v[ref])
InsertSelf(v, T) ==
    /\ Alive(v)
    /\ copyable
    /\ GrowthFits(vecs[v])
    /\ \E pos \in 0 .. vecs[v].size_, ref \in 0 .. vecs[v].size_ - 1, k \in T :
          LET r == Vector_InsertCopy(M(k), vecs[v], pos, Arg("copy", ref, 0))
          IN Commit(Last("Insert(const& self)", v, "-", pos, ref, r.m),
                    [vecs EXCEPT ![v] = r.self], r.m)

\* ---------------------------------------------------------- specifications
\* A program that has constructed nothing yet and makes b more calls, on
\* element types of the traits in NM (nothrow move) and CP (copyable).
Start(b, NM, CP) ==
    /\ vecs = [v \in VecIds |-> NoVec]
    /\ heap = EmptyHeap
    /\ last = Last("init", "-", "-", 0, 0, Machine(EmptyHeap, 0))
    /\ crashed = FALSE
    /\ nothrowMove \in NM
    /\ copyable \in CP
    /\ budget = b

\* Any program over two Vector objects, of at most MaxOps calls.
Init == Start(MaxOps, BOOLEAN, BOOLEAN)

Next ==
    \E v \in VecIds :
        \/ DefaultCtor(v)
        \/ SizedCtor(v, AllThrows)
        \/ CopyCtor(v, AllThrows)
        \/ MoveCtor(v)
        \/ Dtor(v)
        \/ CopyAssignOp(v, AllThrows)
        \/ MoveAssignOp(v)
        \/ SwapOp(v)
        \/ Reserve(v, AllThrows)
        \/ Resize(v, AllThrows)
        \/ PushBackCopy(v, Values, AllThrows)
        \/ PushBackMove(v, Values, AllThrows)
        \/ EmplaceBack(v, Values, AllThrows)
        \/ Emplace(v, Values, AllThrows)
        \/ InsertCopy(v, Values, AllThrows)
        \/ InsertMove(v, Values, AllThrows)
        \/ Erase(v, AllThrows)
        \/ PopBack(v)

Spec == Init /\ [][Next]_vars

\* A program holding one default-constructed Vector, a, that makes b more calls.
StartOne(b, NM, CP) ==
    /\ vecs = [v \in VecIds |-> IF v = "a" THEN Vector_Default ELSE NoVec]
    /\ heap = EmptyHeap
    /\ last = Last("Vector()", "a", "-", 0, 0, Machine(EmptyHeap, 0))
    /\ crashed = FALSE
    /\ nothrowMove \in NM
    /\ copyable \in CP
    /\ budget = b

SeqVals == 1 .. MaxSeqVal
NoThrow == {0}
GrowThrows == 0 .. MaxGrowThrow

\* Appends, insertions and removals on one Vector, none of which throws.
SeqInit == StartOne(MaxSeqOps, BOOLEAN, BOOLEAN)

SeqNext ==
    \/ PushBackCopy("a", SeqVals, NoThrow)
    \/ PushBackMove("a", SeqVals, NoThrow)
    \/ EmplaceBack("a", SeqVals, NoThrow)
    \/ InsertCopy("a", SeqVals, NoThrow)
    \/ InsertMove("a", SeqVals, NoThrow)
    \/ Erase("a", NoThrow)
    \/ PopBack("a")

SpecSeq == SeqInit /\ [][SeqNext]_vars

\* Appends only, none of which throws.
AppendInit == StartOne(MaxAppends, BOOLEAN, BOOLEAN)

AppendNext ==
    \/ PushBackCopy("a", SeqVals, NoThrow)
    \/ PushBackMove("a", SeqVals, NoThrow)
    \/ EmplaceBack("a", SeqVals, NoThrow)

SpecAppend == AppendInit /\ [][AppendNext]_vars

\* The growth paths on one Vector, any element operation of which may throw.
GrowInit == StartOne(MaxGrowOps, BOOLEAN, BOOLEAN)

GrowNext ==
    \/ Reserve("a", GrowThrows)
    \/ PushBackCopy("a", SeqVals, GrowThrows)
    \/ PushBackMove("a", SeqVals, GrowThrows)
    \/ EmplaceBack("a", SeqVals, GrowThrows)
    \/ Emplace("a", SeqVals, GrowThrows)
    \/ InsertCopy("a", SeqVals, GrowThrows)
    \/ InsertMove("a", SeqVals, GrowThrows)

SpecGrow == GrowInit /\ [][GrowNext]_vars

\* A program holding two default-constructed Vectors that makes b more calls.
StartTwo(b, NM, CP) ==
    /\ vecs = [v \in VecIds |-> Vector_Default]
    /\ heap = EmptyHeap
    /\ last = Last("Vector()", "b", "-", 0, 0, Machine(EmptyHeap, 0))
    /\ crashed = FALSE
    /\ nothrowMove \in NM
    /\ copyable \in CP
    /\ budget = b

AssignThrows == 0 .. MaxAssignThrow

\* Two Vectors of a copyable T, filled by appends, PopBack and Reserve that do
\* not throw, and copy-assigned to each other with any element operation of
\* the assignment throwing.
AssignInit == StartTwo(MaxAssignOps, BOOLEAN, {TRUE})

AssignNext ==
    \E v \in VecIds :
        \/ EmplaceBack(v, SeqVals, NoThrow)
        \/ PopBack(v)
        \/ Reserve(v, NoThrow)
        \/ CopyAssignOp(v, AssignThrows)

SpecAssign == AssignInit /\ [][AssignNext]_vars

\* One Vector of a copyable T, filled by appends and Reserve, into which its
\* own elements are inserted and appended by reference; nothing throws.
AliasInit == StartOne(MaxAliasOps, BOOLEAN, {TRUE})

AliasNext ==
    \/ EmplaceBack("a", SeqVals, NoThrow)
    \/ Reserve("a", NoThrow)
    \/ PushBackSelf("a", NoThrow)
    \/ InsertSelf("a", NoThrow)

SpecAlias == AliasInit /\ [][AliasNext]_vars

\* --------------------------------------------------------------- observers
Size(vs, v) == vs[v].size_

Capacity(vs, v) == vs[v].data_.capacity_

Buffer(vs, v) == vs[v].data_.buffer_

\* The elements operator[] reads at indices [0, size_).
Contents(vs, h, v) == [i \in 1 .. vs[v].size_ |-> ValueAt(h, vs[v].data_.buffer_, i - 1)]

\* [0, size_) constructed, [size_, capacity_) not, in a block of capacity_ slots.
WellFormed(vs, h, v) ==
    /\ vs[v].size_ <= vs[v].data_.capacity_
    /\ (vs[v].data_.buffer_ = NullPtr) <=> (vs[v].data_.capacity_ = 0)
    /\ vs[v].data_.capacity_ > 0 =>
          /\ InBlock(h, vs[v].data_.buffer_, vs[v].data_.capacity_ - 1)
          /\ ~InBlock(h, vs[v].data_.buffer_, vs[v].data_.capacity_)
    /\ \A i \in 0 .. vs[v].data_.capacity_ - 1 :
          LiveAt(h, vs[v].data_.buffer_, i) <=> i < vs[v].size_

\* ------------------------------------------------------------------ claims

\* C1: in every reachable state, for every Vector, the slots at indices
\* [0, size) each hold a constructed element and the slots at indices
\* [size, capacity) hold none.
C1_LiveRange ==
    \A v \in VecIds :
        Alive(v) =>
            /\ \A i \in 0 .. Size(vecs, v) - 1 : LiveAt(heap, Buffer(vecs, v), i)
            /\ \A i \in Size(vecs, v) .. Capacity(vecs, v) - 1 :
                  ~LiveAt(heap, Buffer(vecs, v), i)

\* C2: every Vector, a moved-from one included, has 0 <= Size() <= Capacity().
C2_SizeWithinCapacity ==
    \A v \in VecIds :
        Alive(v) => 0 <= Size(vecs, v) /\ Size(vecs, v) <= Capacity(vecs, v)

\* C3: every RawMemory has a null buffer exactly when its capacity is 0; a
\* moved-from RawMemory has both.
C3_NullIffZeroCapacity ==
    \A v \in VecIds :
        Alive(v) => ((Buffer(vecs, v) = NullPtr) <=> (Capacity(vecs, v) = 0))

\* C4: each allocated block is owned by exactly one RawMemory, no RawMemory
\* holds a block that is not allocated, and no block is deallocated twice;
\* also after a call that exits by an exception.
C4_BlockOwnership ==
    /\ "doubleFree" \notin last.ev
    /\ \A b \in DOMAIN heap :
          heap[b].alloc =>
              Cardinality({v \in VecIds : Alive(v) /\ Buffer(vecs, v) = b}) = 1
    /\ \A v \in VecIds :
          Alive(v) /\ Buffer(vecs, v) # NullPtr =>
              Buffer(vecs, v) \in DOMAIN heap /\ heap[Buffer(vecs, v)].alloc
    /\ (\A v \in VecIds : ~Alive(v)) => heap = EmptyHeap

\* A Reserve that threw while relocating, the Vector keeping its old block.
C4_Witness ==
    /\ last.op = "Reserve"
    /\ last.thrown
    /\ ~crashed
    /\ Buffer(vecs, last.id) # NullPtr

IsMove(l) == l.op \in {"Vector(&&)", "operator=(&&)"} /\ l.id # l.other

\* C5: after a move construction or a move assignment from another Vector the
\* destination holds the source's prior elements and size, and the source has
\* size 0 and capacity 0, or at least owns no buffer.
C5_MoveLeavesSourceEmpty ==
    [][IsMove(last') /\ ~crashed' =>
          /\ Contents(vecs', heap', last'.id) = Contents(vecs, heap, last'.other)
          /\ \/ Size(vecs', last'.other) = 0 /\ Capacity(vecs', last'.other) = 0
             \/ Buffer(vecs', last'.other) = NullPtr]_vars

\* C6: after a = std::move(b), a and b well-formed before it, destroying b
\* destroys each element a held exactly once and no slot without an element:
\* b's destructor leaves no constructed element in the block it frees and
\* destroys nothing that is not constructed.
C6_MoveAssignReleasesOld ==
    [][/\ last'.op = "operator=(&&)"
       /\ last'.id # last'.other
       /\ WellFormed(vecs, heap, last'.id)
       /\ WellFormed(vecs, heap, last'.other)
       /\ ~crashed'
       => Vector_Dtor(Machine(heap', 0), vecs'[last'.other]).ev = {}]_vars

\* C10: Resize(n) with n < Size() on a well-formed Vector destroys exactly the
\* elements at [n, old size), leaves the first n elements live with their
\* values, sets Size() to n and keeps Capacity().
C10_ResizeShrink ==
    [][/\ last'.op = "Resize"
       /\ last'.n < Size(vecs, last'.id)
       /\ WellFormed(vecs, heap, last'.id)
       /\ ~crashed'
       => /\ last'.ev = {}
          /\ Size(vecs', last'.id) = last'.n
          /\ Capacity(vecs', last'.id) = Capacity(vecs, last'.id)
          /\ Buffer(vecs', last'.id) = Buffer(vecs, last'.id)
          /\ \A i \in 0 .. Capacity(vecs, last'.id) - 1 :
                /\ LiveAt(heap', Buffer(vecs, last'.id), i) <=> i < last'.n
                /\ i < last'.n =>
                      ValueAt(heap', Buffer(vecs, last'.id), i)
                          = ValueAt(heap, Buffer(vecs, last'.id), i)]_vars

\* The relocation step of a growth path ran in the call l records.
Relocated(l) == l.ev \cap {"relocateByMove", "relocateByCopy"} # {}

\* C7: for a copy-constructible T whose move constructor may throw, a throw
\* during the relocation step of a reallocating Reserve, PushBack, EmplaceBack
\* or Emplace leaves the Vector and every block as before the call; and
\* relocation is by move only when T's move constructor cannot throw or T is
\* not copy-constructible.
C7_StrongGuarantee ==
    [][/\ Relocated(last') /\ last'.thrown /\ copyable /\ ~nothrowMove
          => vecs' = vecs /\ heap' = heap /\ ~crashed'
       /\ "relocateByMove" \in last'.ev => nothrowMove \/ ~copyable]_vars

\* An Emplace at index 1 of a full Vector of two elements whose relocation by
\* copy threw.
C7_Witness ==
    /\ last.op = "Emplace"
    /\ last.n = 1
    /\ last.thrown
    /\ "relocateByCopy" \in last.ev
    /\ Size(vecs, "a") = 2
    /\ Capacity(vecs, "a") = 2

\* The abstract sequence operations.
InsertAt(q, p, x) == SubSeq(q, 1, p) \o <<x>> \o SubSeq(q, p + 1, Len(q))

RemoveAt(q, p) == SubSeq(q, 1, p) \o SubSeq(q, p + 2, Len(q))

AbstractOp(l, q) ==
    CASE l.op \in {"EmplaceBack", "PushBack(const&)", "PushBack(&&)"} -> Append(q, l.v)
      [] l.op \in {"Insert(const&)", "Insert(&&)", "Emplace"} -> InsertAt(q, l.n, l.v)
      [] l.op = "Erase" -> RemoveAt(q, l.n)
      [] l.op = "PopBack" -> SubSeq(q, 1, Len(q) - 1)
      [] OTHER -> q

\* C8: from an empty Vector, every EmplaceBack/PushBack(v), Insert(p, v),
\* Erase(p) and PopBack() leaves the size and the elements read by index equal
\* to the abstract sequence after append, insert-at-p, remove-at-p, remove-last.
C8_SequenceRefinement ==
    [][/\ ~crashed'
       /\ Contents(vecs', heap', "a") = AbstractOp(last', Contents(vecs, heap, "a"))]_vars

\* The least value of 0, 1, 2, 4, 8, ... that is >= n.
RECURSIVE Doubling(_, _)
Doubling(c, n) == IF c >= n THEN c ELSE Doubling(IF c = 0 THEN 1 ELSE 2 * c, n)

\* C9: from a default-constructed Vector, after N appends of any kind
\* Size() = N and Capacity() is the value of 0, 1, 2, 4, 8, ... reached by
\* doubling whenever an append finds size = capacity.
C9_AppendDoubling ==
    /\ Size(vecs, "a") = MaxAppends - budget
    /\ Capacity(vecs, "a") = Doubling(0, Size(vecs, "a"))
    /\ ~crashed

\* Three appends: size 3, capacity 4.
C9_Witness ==
    /\ last.op = "PushBack(&&)"
    /\ Size(vecs, "a") = 3
    /\ Capacity(vecs, "a") = 4


\* C11: Resize(n) with n > Size() that returns, on a well-formed Vector, keeps
\* the first old-size elements and their values, value-constructs exactly the
\* slots [old size, n), sets Size() to n, and sets Capacity() to n when the old
\* capacity was below n and keeps it otherwise.
C11_ResizeGrow ==
    [][/\ last'.op = "Resize"
       /\ last'.n > Size(vecs, last'.id)
       /\ WellFormed(vecs, heap, last'.id)
       /\ ~last'.thrown
       => /\ ~crashed'
          /\ last'.ev \cap (Undefined \cup {"overConstruct", "leak"}) = {}
          /\ Size(vecs', last'.id) = last'.n
          /\ Capacity(vecs', last'.id) =
                IF Capacity(vecs, last'.id) < last'.n THEN last'.n
                ELSE Capacity(vecs, last'.id)
          /\ Capacity(vecs, last'.id) >= last'.n =>
                Buffer(vecs', last'.id) = Buffer(vecs, last'.id)
          /\ WellFormed(vecs', heap', last'.id)
          /\ \A i \in 0 .. last'.n - 1 :
                ValueAt(heap', Buffer(vecs', last'.id), i) =
                    IF i < Size(vecs, last'.id)
                    THEN ValueAt(heap, Buffer(vecs, last'.id), i)
                    ELSE DefaultVal]_vars

\* A Resize(2) that grew a Vector holding one caller-supplied value.
C11_Witness ==
    /\ last.op = "Resize"
    /\ last.n = 2
    /\ ~last.thrown
    /\ ~crashed
    /\ Size(vecs, last.id) = 2
    /\ Contents(vecs, heap, last.id) = <<1, DefaultVal>>


\* A copy assignment a = b of two distinct Vectors, recorded by l, that runs in
\* place: b.size <= a.capacity at the call.
InPlaceAssign(l) ==
    /\ l.op = "operator=(const&)"
    /\ l.id # l.other
    /\ Size(vecs, l.other) <= Capacity(vecs, l.id)

\* C12: a returning in-place copy assignment a = b keeps a's buffer and
\* capacity, assigns the common prefix, destroys exactly a's surplus or
\* copy-constructs exactly b's surplus, and ends with a.size = b.size and
\* a[i] = b[i], b unchanged.
C12_CopyAssignInPlace ==
    [][InPlaceAssign(last') /\ ~last'.thrown
       => /\ ~crashed'
          /\ last'.ev = {}
          /\ Buffer(vecs', last'.id) = Buffer(vecs, last'.id)
          /\ Capacity(vecs', last'.id) = Capacity(vecs, last'.id)
          /\ Size(vecs', last'.id) = Size(vecs, last'.other)
          /\ Contents(vecs', heap', last'.id) = Contents(vecs, heap, last'.other)
          /\ \A i \in 0 .. Capacity(vecs, last'.id) - 1 :
                LiveAt(heap', Buffer(vecs, last'.id), i) <=> i < Size(vecs, last'.other)
          /\ vecs'[last'.other] = vecs[last'.other]
          /\ Contents(vecs', heap', last'.other) = Contents(vecs, heap, last'.other)]_vars

\* An in-place assignment that left a with two elements in a larger block.
C12_Witness ==
    /\ last.op = "operator=(const&)"
    /\ last.id # last.other
    /\ ~last.thrown
    /\ Size(vecs, last.id) = 2
    /\ Capacity(vecs, last.id) > 2
    /\ Contents(vecs, heap, last.id) = <<2, 1>>

\* C13: a copy assignment a = b that throws leaves, in the reallocating branch,
\* a as it was; in the in-place branch a's size, capacity and buffer as they
\* were, slots [0, a.size) constructed, no slot from a.size on constructed, and
\* nothing destroyed twice.  b is unchanged in both.
C13_CopyAssignThrow ==
    [][/\ last'.op = "operator=(const&)"
       /\ last'.id # last'.other
       /\ last'.thrown
       => /\ ~crashed'
          /\ last'.ev \cap (Undefined \cup {"overConstruct", "leak"}) = {}
          /\ vecs' = vecs
          /\ WellFormed(vecs', heap', last'.id)
          /\ Contents(vecs', heap', last'.other) = Contents(vecs, heap, last'.other)
          /\ ~InPlaceAssign(last') => heap' = heap]_vars

\* An in-place assignment that threw after it had assigned a[0]: a holds b's
\* first value and its own second.
C13_Witness ==
    /\ last.op = "operator=(const&)"
    /\ last.id = "a"
    /\ last.other = "b"
    /\ last.thrown
    /\ Contents(vecs, heap, "b") = <<2, 2>>
    /\ Contents(vecs, heap, "a") = <<2, 1>>


\* C14: a Vector copy-constructed from a well-formed Vector v has v's size, a
\* capacity equal to that size, v's elements, and a block of its own, v being
\* unchanged; and every call on one Vector alone leaves every other Vector's
\* size, capacity, buffer and block contents as they were.
C14_CopyIndependent ==
    [][/\ /\ last'.op = "Vector(const&)"
          /\ ~last'.thrown
          /\ WellFormed(vecs, heap, last'.other)
          => /\ ~crashed'
             /\ Size(vecs', last'.id) = Size(vecs, last'.other)
             /\ Capacity(vecs', last'.id) = Size(vecs, last'.other)
             /\ Contents(vecs', heap', last'.id) = Contents(vecs, heap, last'.other)
             /\ \/ Buffer(vecs', last'.id) = NullPtr
                \/ Buffer(vecs', last'.id) # Buffer(vecs', last'.other)
             /\ vecs'[last'.other] = vecs[last'.other]
             /\ Contents(vecs', heap', last'.other) = Contents(vecs, heap, last'.other)
       /\ last'.other = "-" =>
             \A w \in VecIds \ {last'.id} :
                 Alive(w) =>
                    /\ vecs'[w] = vecs[w]
                    /\ Buffer(vecs, w) # NullPtr =>
                          heap'[Buffer(vecs, w)] = heap[Buffer(vecs, w)]]_vars

\* A copy of a Vector of one element in a block of two slots: the copy has
\* capacity 1.
C14_Witness ==
    /\ last.op = "Vector(const&)"
    /\ ~last.thrown
    /\ ~crashed
    /\ Size(vecs, last.id) = 1
    /\ Capacity(vecs, last.id) = 1
    /\ Size(vecs, last.other) = 1
    /\ Capacity(vecs, last.other) = 2
    /\ Buffer(vecs, last.id) # Buffer(vecs, last.other)


\* Erase(p) applied to the Vector an insertion at p just produced.
EraseAfter(l) == Vector_Erase(Machine(heap', 0), vecs'[l.id], l.n)

\* C15: on a well-formed Vector, Insert(p, x) followed by Erase(p) is defined
\* and restores the element sequence and Size(), whether or not the insertion
\* reallocated.
C15_InsertThenErase ==
    [][/\ last'.op \in {"Insert(const&)", "Insert(&&)"}
       /\ WellFormed(vecs, heap, last'.id)
       /\ ~last'.thrown
       => /\ ~crashed'
          /\ EraseAfter(last').m.ev \cap Undefined = {}
          /\ EraseAfter(last').self.size_ = Size(vecs, last'.id)
          /\ Contents([vecs' EXCEPT ![last'.id] = EraseAfter(last').self],
                      EraseAfter(last').m.h, last'.id)
                = Contents(vecs, heap, last'.id)]_vars


\* C16: Reserve(n) with n <= Capacity() allocates nothing, moves, copies and
\* destroys nothing, and leaves Size(), Capacity(), the buffer and every
\* element as they were.
C16_ReserveNoOp ==
    [][last'.op = "Reserve" /\ last'.n <= Capacity(vecs, last'.id)
       => /\ vecs' = vecs
          /\ heap' = heap
          /\ last'.ev = {}
          /\ ~last'.thrown
          /\ ~crashed']_vars

\* A Reserve(n) on a Vector of two elements and capacity 2 >= n.
C16_Witness ==
    /\ last.op = "Reserve"
    /\ last.n <= 2
    /\ Size(vecs, last.id) = 2
    /\ Capacity(vecs, last.id) = 2
    /\ last.ev = {}


\* The events of an assignment to, a read (move or copy) from, or a destruction
\* of a slot that holds no constructed element.
DeadSlotOps == {"deadAssign", "deadRead", "deadDestroy", "wild"}

\* C17: no call assigns to, moves from or destroys a slot that holds no
\* constructed element, and after Erase no slot from Size() on holds a
\* constructed object.
C17_NoDeadSlotOps ==
    /\ last.ev \cap DeadSlotOps = {}
    /\ last.op = "Erase" /\ ~crashed =>
          \A i \in Size(vecs, last.id) .. Capacity(vecs, last.id) - 1 :
              ~LiveAt(heap, Buffer(vecs, last.id), i)


\* C18: when relocating an existing element throws in a reallocating PushBack,
\* EmplaceBack, Emplace or Insert on a well-formed Vector, no constructed
\* object is left in the new block when it is deallocated.
C18_NewBlockEmptied ==
    [][/\ last'.op \in {"PushBack(const&)", "PushBack(&&)", "EmplaceBack",
                        "Emplace", "Insert(const&)", "Insert(&&)"}
       /\ Relocated(last')
       /\ last'.thrown
       /\ WellFormed(vecs, heap, last'.id)
       => "leak" \notin last'.ev]_vars


\* C19: Insert(p, x) and PushBack(x) with x a reference to the element at index
\* r of the same Vector insert the value that element held before the call and
\* keep all other elements, shifted; on the reallocating and the in-place path.
C19_SelfReference ==
    [][last'.op \in {"Insert(const& self)", "PushBack(const& self)"}
       => /\ ~crashed'
          /\ Contents(vecs', heap', last'.id) =
                InsertAt(Contents(vecs, heap, last'.id), last'.n,
                         Contents(vecs, heap, last'.id)[last'.v + 1])]_vars


\* C20: for a T whose move operations cannot throw, so that the inserted
\* value's construction is what threw, an in-place Emplace or Insert before the
\* end of a well-formed Vector that throws leaves the Vector and its block as
\* before the call: size, every element value, and no object at index size.
C20_InPlaceEmplaceThrow ==
    [][/\ last'.op \in {"Emplace", "Insert(const&)", "Insert(&&)"}
       /\ last'.thrown
       /\ nothrowMove
       /\ Size(vecs, last'.id) < Capacity(vecs, last'.id)
       /\ last'.n < Size(vecs, last'.id)
       /\ WellFormed(vecs, heap, last'.id)
       => /\ ~crashed'
          /\ vecs' = vecs
          /\ heap' = heap]_vars

====
